---- MODULE Spec2Model ----
(***************************************************************************)
(* Model of ultrasonic_capture.py: DualSensorController with its two       *)
(* MB1300Sensor objects, the caller thread and the background capture      *)
(* loop threads created by start_continuous_capture; and of                *)
(* continuous_mode.py: SoftwareSerial.read_byte and read_line.             *)
(***************************************************************************)
EXTENDS Integers, Sequences, FiniteSets, TLC

\* ---------------------------------------------------------------- bounds
MaxThreads == 2          \* capture-loop threads that may exist at a time
MaxCycles  == 2          \* single_cycle invocations explored in one run
Pulses     == 2          \* pulses_per_trigger passed by the caller
MaxReadings == 2         \* valid lines the two sensors deliver in one run
MaxAppends == 1002       \* appends explored by the history specification
MaxCalls   == 2          \* capture_pulse_series calls explored in one run
MaxRecent  == 5          \* history length explored for get_recent_measurements
MaxBytes   == 4          \* bytes the sensor sends before one read_until
MaxIter    == 2          \* iterations of continuous_mode.main's loop
MaxItems   == 3          \* frames and glitches on the wire in one read_line

\* ------------------------------------------------------ program constants
HistoryMaxLen == 1000    \* deque(maxlen=1000)
BitTicks    == 2         \* BIT_DURATION = 1/9600 s, in half bit periods
ByteTimeout == 960       \* read_byte(timeout=0.05): 0.05 s in half bit periods
LineTimeout == 5760      \* read_line(timeout=0.3): 0.3 s in half bit periods
CR          == 13        \* 0x0D
FirstPrintable == 32     \* 32 <= b
LastPrintable  == 126    \* b <= 126

Caller  == 0
Threads == 1..MaxThreads
Agents  == {Caller} \cup Threads
Sensors == {1, 2}

VARIABLES
    is_running,      \* DualSensorController.is_running
    cycle_count,     \* DualSensorController.cycle_count
    capture_thread,  \* DualSensorController.capture_thread (0 = None)
    measurements,    \* sensor -> MB1300Sensor.measurements (the deque)
    pin,             \* sensor -> level of its trigger pin
    gpio_clean,      \* GPIO.cleanup() has been called
    pc,              \* agent -> position in its code
    sen,             \* agent -> sensor it is working on (0 outside a cycle)
    idx,             \* agent -> pulse_num of capture_pulse_series (0 outside)
    reg,             \* agent -> value loaded by "self.cycle_count += 1"
    ev,              \* agent -> events of the cycle it is in (history)
    ncycles,         \* single_cycle invocations begun so far (history)
    stop_returned,   \* the last stop_continuous_capture has returned
    appended,        \* everything ever appended to sensor 1 (history)
    \* --- capture_pulse_series, statement by statement
    now,             \* the clock read by time.time()
    lock,            \* holder of MB1300Sensor._lock of sensor 1 (-1 = free)
    local,           \* agent -> the local list "measurements" of its call
    outs,            \* agent -> outcomes of the call's read attempts (history)
    cbs,             \* agent -> callback invocations of its call (history)
    ret,             \* agent -> what its last call returned
    ncalls,          \* capture_pulse_series calls begun so far (history)
    prev_empty,      \* agent -> its previous call returned [] (history)
    callback,        \* MB1300Sensor.callback is set
    \* --- continuous_mode.SoftwareSerial
    items,           \* what the sensor transmits during the read_line call
    tick,            \* the time, in half bit periods
    rl,              \* read_line: position in its code
    rl_start,        \* read_line: start
    line,            \* read_line: line
    result,          \* read_line: what it returned
    closed,          \* read_line left its loop by the break on CR (history)
    rb,              \* read_byte: position in its code
    rb_start,        \* read_byte: start
    nbit,            \* read_byte: i
    byte,            \* read_byte: byte
    rl_b,            \* read_line: b, the result of read_byte (-1 = None)
    decoded,         \* the bytes read_byte has returned (history)
    \* --- ultrasonic_capture.main
    main_pc,         \* main: position in its code
    port_open,       \* sensor -> its serial_port is open
    ncleanup,        \* executions of GPIO.cleanup() (history)
    \* --- read_serial_measurement and the measurement built from it
    rs_pc,           \* position: "idle", "ready", "line", "parsed", or a reader
    rx,              \* line: what serial_port.read_until(b'\r') returned
    sent_line,       \* the line the sensor was sending (history)
    dist,            \* the distance returned, or none
    built,           \* the PulseWidthMeasurement built from it
    \* --- save_to_csv
    tags,            \* sensor -> cycle each history entry was captured in
    rows,            \* the data rows written
    saved,           \* save_to_csv has returned
    \* --- get_recent_measurements
    asked,           \* count of the last call (-1 = no call yet)
    recent,          \* what the last call returned
    \* --- continuous_mode.main
    cont_pc,         \* position in main
    cont_iter,       \* iterations of "while True" begun (history)
    dist1,           \* what sensor1.read_distance() returned
    dist2,           \* what sensor2.read_distance() returned
    all_measurements,\* the list main saves
    cont_count,      \* main's count
    \* --- ultrasonic_uart: main, setup and capture_alternating
    uart_pc,         \* position in main
    success,         \* sensor -> what open() returned ("none" before)
    setup_ret,       \* what setup() returned ("none" before)
    serial_open,     \* sensor -> serial_port is set and is_open
    cycle,           \* capture_alternating's cycle
    ua_i,            \* i + 1 of the for loop in progress
    all_readings,    \* capture_alternating's all_readings
    attempts         \* read_distance calls of the cycle (history)

capv == <<now, lock, local, outs, cbs, ret, ncalls, prev_empty, callback>>

serv == <<items, tick, rl, rl_start, line, result, closed, rb, rb_start,
          nbit, byte, rl_b, decoded>>

\* the controller and its sensors
base == <<is_running, cycle_count, capture_thread, measurements, pin,
          gpio_clean, pc, sen, idx, reg, ev, ncycles, stop_returned,
          appended>>

mainv  == <<main_pc, port_open, ncleanup>>
parsev == <<rs_pc, rx, sent_line, dist, built>>
csvv   == <<tags, rows, saved>>
recv   == <<asked, recent>>
contv  == <<cont_pc, cont_iter, dist1, dist2, all_measurements, cont_count>>

\* the other programs of the repository
uartv  == <<uart_pc, success, setup_ret, serial_open, cycle, ua_i,
            all_readings, attempts>>

progv == <<contv, uartv>>

extv == <<mainv, parsev, csvv, recv, progv>>

\* state of the parts of the program an action does not belong to
aux == <<capv, serv, extv>>

vars == <<is_running, cycle_count, capture_thread, measurements, pin,
          gpio_clean, pc, sen, idx, reg, ev, ncycles, stop_returned,
          appended, capv, serv, extv>>

ctl   == <<is_running, capture_thread, gpio_clean, stop_returned>>
ghost == <<ncycles, appended>>

\* ------------------------------------------------------------ data types
\* PulseWidthMeasurement, with the fields the history specification tells
\* entries apart by.
PulseWidthMeasurement(s, i, ts) ==
    [sensor_name |-> s, pulse_number |-> i, timestamp |-> ts]

\* The entry capture_pulse_series appends, as far as the scheduling of the
\* controller is concerned: no step of start, stop, single_cycle or
\* capture_loop reads a field of a stored measurement.
Reading(s) == [sensor_name |-> s]

\* deque(maxlen=HistoryMaxLen).append: a full deque drops its left end.
DequeAppend_KeepsOldest(d, x) ==
    IF Len(d) >= HistoryMaxLen THEN d ELSE Append(d, x)

DequeAppend(d, x) ==
    IF Len(d) >= HistoryMaxLen THEN Append(Tail(d), x) ELSE Append(d, x)

\* The events one complete single_cycle produces, in order.
RECURSIVE Rep(_, _)
Rep(x, n) == IF n = 0 THEN <<>> ELSE <<x>> \o Rep(x, n - 1)

FullCycle(n) ==
    <<"T1">> \o Rep("R1", n) \o <<"P">> \o <<"T2">> \o Rep("R2", n)

IsPrefix(s, t) == Len(s) <= Len(t) /\ SubSeq(t, 1, Len(s)) = s

InCycle(a)   == pc[a] \in {"inc_store", "trig_high", "trig_low", "read",
                           "pause"}
\* between the start of trigger() and the end of capture_pulse_series()
InSection(a) == pc[a] \in {"trig_low", "read"}
Alive(t)     == pc[t] \notin {"none", "done"}

\* self._lock of a sensor is free, or held by an agent.
Free == -1

\* What a call of capture_pulse_series gave its caller: nothing yet, the
\* list it returned, or an exception.
NoResult    == [kind |-> "none", val |-> <<>>]
Returned(l) == [kind |-> "list", val |-> l]
Raised      == [kind |-> "raised", val |-> <<>>]

\* read_byte returned None.
None == -1

\* What read_line returns: None, or the string of the characters in l.
NoLine  == [kind |-> "none", val |-> <<>>]
Line(l) == [kind |-> "line", val |-> l]

\* What read_serial_measurement returns: None, or a distance (kept in
\* 1/1000 inch); and the measurement capture_pulse_series builds from it.
NoDistance     == [kind |-> "none", val |-> 0]
Distance(d)    == [kind |-> "inches", val |-> d]
NoMeasurement  == [kind |-> "none", distance_inches |-> 0,
                   pulse_width_us |-> 0]

\* ------------------------------------------------------------------ Init
Init ==
    /\ is_running = FALSE
    /\ cycle_count = 0
    /\ capture_thread = 0
    /\ measurements = [s \in Sensors |-> <<>>]
    /\ pin = [s \in Sensors |-> "LOW"]
    /\ gpio_clean = FALSE
    /\ pc = [a \in Agents |-> IF a = Caller THEN "idle" ELSE "none"]
    /\ sen = [a \in Agents |-> 0]
    /\ idx = [a \in Agents |-> 0]
    /\ reg = [a \in Agents |-> 0]
    /\ ev = [a \in Agents |-> <<>>]
    /\ ncycles = 0
    /\ stop_returned = FALSE
    /\ appended = <<>>
    /\ now = 1
    /\ lock = Free
    /\ local = [a \in Agents |-> <<>>]
    /\ outs = [a \in Agents |-> <<>>]
    /\ cbs = [a \in Agents |-> 0]
    /\ ret = [a \in Agents |-> NoResult]
    /\ ncalls = 0
    /\ prev_empty = [a \in Agents |-> FALSE]
    /\ callback = FALSE
    /\ items = <<>>
    /\ tick = 1
    /\ rl = "idle"
    /\ rl_start = 0
    /\ line = <<>>
    /\ result = NoLine
    /\ closed = FALSE
    /\ rb = "off"
    /\ rb_start = 0
    /\ nbit = 0
    /\ byte = 0
    /\ rl_b = None
    /\ decoded = <<>>
    /\ main_pc = "setup"
    /\ port_open = [s \in Sensors |-> FALSE]
    /\ ncleanup = 0
    /\ rs_pc = "idle"
    /\ rx = <<>>
    /\ sent_line = <<>>
    /\ dist = NoDistance
    /\ built = NoMeasurement
    /\ tags = [s \in Sensors |-> <<>>]
    /\ rows = <<>>
    /\ saved = FALSE
    /\ asked = -1
    /\ recent = <<>>
    /\ cont_pc = "read1"
    /\ cont_iter = 1
    /\ dist1 = NoDistance
    /\ dist2 = NoDistance
    /\ all_measurements = <<>>
    /\ cont_count = 0
    /\ uart_pc = "open1"
    /\ success = [s \in Sensors |-> "none"]
    /\ setup_ret = "none"
    /\ serial_open = [s \in Sensors |-> FALSE]
    /\ cycle = 0
    /\ ua_i = 0
    /\ all_readings = <<>>
    /\ attempts = <<>>

\* ------------------------------------------------- single_cycle, by steps
\* Entry of single_cycle by agent a (the caller, or a loop thread whose
\* "while self.is_running" test passed), up to the load of
\* "self.cycle_count += 1".  Nothing another agent does between the entry
\* and the load changes what is loaded afterwards, so they are one step.
BeginCycle(a) ==
    /\ ncycles < MaxCycles
    /\ ncycles' = ncycles + 1
    /\ pc' = [pc EXCEPT ![a] = "inc_store"]
    /\ reg' = [reg EXCEPT ![a] = cycle_count]
    /\ UNCHANGED <<aux, cycle_count, measurements, pin, sen, idx, ev, appended>>

\* Normal return of single_cycle: to the caller's prompt, or to
\* capture_loop's time.sleep(cycle_delay).
ReturnPc(a) == IF a = Caller THEN "idle" ELSE "sleep"

\* An exception leaves single_cycle: it propagates out of the caller's call,
\* or is caught by capture_loop's "except Exception".
RaisePc(a)  == IF a = Caller THEN "failed" ELSE "caught"

Raise(a) ==
    /\ pc' = [pc EXCEPT ![a] = RaisePc(a)]
    /\ sen' = [sen EXCEPT ![a] = 0]
    /\ idx' = [idx EXCEPT ![a] = 0]
    /\ ev' = [ev EXCEPT ![a] = <<>>]

\* self.cycle_count += 1 : the store of the value loaded plus one.
IncStore(a) ==
    /\ pc[a] = "inc_store"
    /\ cycle_count' = reg[a] + 1
    /\ reg' = [reg EXCEPT ![a] = 0]
    /\ pc' = [pc EXCEPT ![a] = "trig_high"]
    /\ sen' = [sen EXCEPT ![a] = 1]
    /\ UNCHANGED <<aux, ctl, ghost, measurements, pin, idx, ev>>

\* trigger(): GPIO.output(trigger_pin, GPIO.HIGH).  After GPIO.cleanup()
\* the write either still reaches the pin or raises.
TriggerHigh(a) ==
    /\ pc[a] = "trig_high"
    /\ \/ /\ pin' = [pin EXCEPT ![sen[a]] = "HIGH"]
          /\ pc' = [pc EXCEPT ![a] = "trig_low"]
          /\ ev' = [ev EXCEPT ![a] =
                      Append(@, IF sen[a] = 1 THEN "T1" ELSE "T2")]
          /\ UNCHANGED <<sen, idx>>
       \/ /\ gpio_clean
          /\ Raise(a)
          /\ UNCHANGED pin
    /\ UNCHANGED <<aux, ctl, ghost, cycle_count, measurements, reg>>

\* trigger(): sleep 25us, GPIO.output(trigger_pin, GPIO.LOW), sleep 1ms.
TriggerLow(a) ==
    /\ pc[a] = "trig_low"
    /\ \/ /\ pin' = [pin EXCEPT ![sen[a]] = "LOW"]
          /\ pc' = [pc EXCEPT ![a] = "read"]
          /\ idx' = [idx EXCEPT ![a] = 1]
          /\ UNCHANGED <<sen, ev>>
       \/ /\ gpio_clean
          /\ Raise(a)
          /\ UNCHANGED pin
    /\ UNCHANGED <<aux, ctl, ghost, cycle_count, measurements, reg>>

\* Where capture_pulse_series and single_cycle go after pulse i of sensor s.
AfterRead_OneShort(s, i) ==
    IF i < Pulses - 1 THEN <<"read", s, i + 1>>
    ELSE IF s = 1 THEN <<"pause", 1, 0>> ELSE <<"return", 0, 0>>

AfterRead(s, i) ==
    IF i < Pulses THEN <<"read", s, i + 1>>
    ELSE IF s = 1 THEN <<"pause", 1, 0>> ELSE <<"return", 0, 0>>

\* What one read attempt can do: read_serial_measurement returns None
\* ("none"), returns a distance ("ok"), or returns a distance and the
\* registered callback raises ("cb_raise").
Outcomes == {"none", "ok", "cb_raise"}

\* Successful readings so far (no history is full within the bounds).
NReadings == Len(measurements[1]) + Len(measurements[2])

\* One iteration of the loop of capture_pulse_series.
ReadPulse(a) ==
    /\ pc[a] = "read"
    /\ \E outcome \in Outcomes :
        /\ outcome # "none" => NReadings < MaxReadings
        /\ IF outcome = "none"
             THEN UNCHANGED measurements
             ELSE measurements' =
                    [measurements EXCEPT ![sen[a]] =
                       DequeAppend(@, Reading(sen[a]))]
        /\ IF outcome = "cb_raise"
             THEN Raise(a)
             ELSE LET nx == AfterRead(sen[a], idx[a]) IN
                  /\ pc' = [pc EXCEPT ![a] =
                              IF nx[1] = "return" THEN ReturnPc(a) ELSE nx[1]]
                  /\ sen' = [sen EXCEPT ![a] = nx[2]]
                  /\ idx' = [idx EXCEPT ![a] = nx[3]]
                  /\ ev' = [ev EXCEPT ![a] =
                              IF nx[1] = "return" THEN <<>>
                              ELSE Append(@, IF sen[a] = 1 THEN "R1"
                                             ELSE "R2")]
    /\ UNCHANGED <<aux, ctl, ghost, cycle_count, pin, reg>>

\* time.sleep(0.01) between the sensors.
Pause_TestsFlag(a) ==
    /\ pc[a] = "pause"
    /\ IF is_running \/ a = Caller
         THEN /\ ev' = [ev EXCEPT ![a] = Append(@, "P")]
              /\ pc' = [pc EXCEPT ![a] = "trig_high"]
              /\ sen' = [sen EXCEPT ![a] = 2]
         ELSE /\ pc' = [pc EXCEPT ![a] = "check"]
              /\ sen' = [sen EXCEPT ![a] = 0]
              /\ ev' = [ev EXCEPT ![a] = <<>>]
    /\ UNCHANGED <<aux, ctl, ghost, cycle_count, measurements, pin, idx, reg>>

Pause(a) ==
    /\ pc[a] = "pause"
    /\ ev' = [ev EXCEPT ![a] = Append(@, "P")]
    /\ pc' = [pc EXCEPT ![a] = "trig_high"]
    /\ sen' = [sen EXCEPT ![a] = 2]
    /\ UNCHANGED <<aux, ctl, ghost, cycle_count, measurements, pin, idx, reg>>

CycleStep(a) ==
    \/ IncStore(a)
    \/ TriggerHigh(a)
    \/ TriggerLow(a)
    \/ ReadPulse(a)
    \/ Pause(a)

\* ------------------------------------------------------ the caller thread
\* The caller calls single_cycle.
CallSingleCycle_EntersRunning ==
    /\ pc[Caller] = "idle"
    /\ BeginCycle(Caller)
    /\ is_running' = TRUE
    /\ UNCHANGED <<capture_thread, gpio_clean, stop_returned>>

CallSingleCycle ==
    /\ pc[Caller] = "idle"
    /\ BeginCycle(Caller)
    /\ UNCHANGED ctl

\* start_continuous_capture: the is_running test and "is_running = True".
Start ==
    /\ pc[Caller] = "idle"
    /\ IF is_running
         THEN UNCHANGED <<is_running, pc>>
         ELSE /\ \E t \in Threads : ~Alive(t)
              /\ is_running' = TRUE
              /\ pc' = [pc EXCEPT ![Caller] = "start_reset"]
    /\ stop_returned' = FALSE
    /\ UNCHANGED <<aux, cycle_count, capture_thread, measurements, pin, gpio_clean,
                   sen, idx, reg, ev, ghost>>

\* start_continuous_capture: "self.cycle_count = 0".
StartReset ==
    /\ pc[Caller] = "start_reset"
    /\ cycle_count' = 0
    /\ pc' = [pc EXCEPT ![Caller] = "start_spawn"]
    /\ UNCHANGED <<aux, ctl, ghost, measurements, pin, sen, idx, reg, ev>>

\* start_continuous_capture: the Thread is created and started.
StartSpawn ==
    /\ pc[Caller] = "start_spawn"
    /\ \E t \in Threads :
        /\ ~Alive(t)
        /\ \A u \in Threads : ~Alive(u) => t <= u
        /\ capture_thread' = t
        /\ pc' = [pc EXCEPT ![Caller] = "idle", ![t] = "check"]
    /\ UNCHANGED <<aux, is_running, cycle_count, measurements, pin, gpio_clean,
                   sen, idx, reg, ev, ghost, stop_returned>>

\* stop_continuous_capture: the test, "is_running = False", then the join.
Stop ==
    /\ pc[Caller] = "idle"
    /\ IF ~is_running
         THEN /\ stop_returned' = TRUE
              /\ UNCHANGED <<is_running, pc>>
         ELSE /\ is_running' = FALSE
              /\ pc' = [pc EXCEPT ![Caller] = "join"]
              /\ UNCHANGED stop_returned
    /\ UNCHANGED <<aux, cycle_count, capture_thread, measurements, pin, gpio_clean,
                   sen, idx, reg, ev, ghost>>

\* capture_thread.join(timeout=2.0) returns because the thread has ended.
JoinDone ==
    /\ pc[Caller] = "join"
    /\ capture_thread # 0 => ~Alive(capture_thread)
    /\ pc' = [pc EXCEPT ![Caller] = "idle"]
    /\ stop_returned' = TRUE
    /\ UNCHANGED <<aux, is_running, cycle_count, capture_thread, measurements, pin,
                   gpio_clean, sen, idx, reg, ev, ghost>>

\* capture_thread.join(timeout=2.0) returns because the 2 s have run out.
JoinTimeout ==
    /\ pc[Caller] = "join"
    /\ capture_thread # 0
    /\ Alive(capture_thread)
    /\ pc' = [pc EXCEPT ![Caller] = "idle"]
    /\ stop_returned' = TRUE
    /\ UNCHANGED <<aux, is_running, cycle_count, capture_thread, measurements, pin,
                   gpio_clean, sen, idx, reg, ev, ghost>>

\* The exception of a failed single_cycle reaches the caller's handler.
Unwind ==
    /\ pc[Caller] = "failed"
    /\ pc' = [pc EXCEPT ![Caller] = "idle"]
    /\ UNCHANGED <<aux, ctl, ghost, cycle_count, measurements, pin, sen, idx, reg,
                   ev>>

\* cleanup(): GPIO.cleanup(); the shutdown sequences call it after stop.
Cleanup ==
    /\ pc[Caller] = "idle"
    /\ stop_returned
    /\ ~is_running
    /\ gpio_clean' = TRUE
    /\ pc' = [pc EXCEPT ![Caller] = "exited"]
    /\ UNCHANGED <<aux, is_running, cycle_count, capture_thread, measurements, pin,
                   sen, idx, reg, ev, ghost, stop_returned>>

CallerStep ==
    \/ CallSingleCycle
    \/ CycleStep(Caller)
    \/ Unwind
    \/ Start
    \/ StartReset
    \/ StartSpawn
    \/ Stop
    \/ JoinDone
    \/ JoinTimeout
    \/ Cleanup

\* ------------------------------------------------------------ capture_loop
\* "while self.is_running": enter single_cycle, or leave the loop.
Check_IgnoresFlag(t) ==
    /\ pc[t] = "check"
    /\ BeginCycle(t)
    /\ UNCHANGED ctl

Check(t) ==
    /\ pc[t] = "check"
    /\ IF is_running
         THEN BeginCycle(t)
         ELSE /\ pc' = [pc EXCEPT ![t] = "done"]
              /\ UNCHANGED <<aux, cycle_count, measurements, pin, sen, idx, reg,
                             ev, ghost>>
    /\ UNCHANGED ctl

\* time.sleep(cycle_delay)
Sleep(t) ==
    /\ pc[t] = "sleep"
    /\ pc' = [pc EXCEPT ![t] = "check"]
    /\ UNCHANGED <<aux, ctl, ghost, cycle_count, measurements, pin, sen, idx, reg,
                   ev>>

\* except Exception as e: print(...)
Caught_Breaks(t) ==
    /\ pc[t] = "caught"
    /\ pc' = [pc EXCEPT ![t] = "done"]
    /\ UNCHANGED <<aux, ctl, ghost, cycle_count, measurements, pin, sen, idx,
                   reg, ev>>

Caught(t) ==
    /\ pc[t] = "caught"
    /\ pc' = [pc EXCEPT ![t] = "check"]
    /\ UNCHANGED <<aux, ctl, ghost, cycle_count, measurements, pin, sen, idx, reg,
                   ev>>

ThreadStep(t) ==
    \/ Check(t)
    \/ CycleStep(t)
    \/ Sleep(t)
    \/ Caught(t)

Next ==
    \/ CallerStep
    \/ \E t \in Threads : ThreadStep(t)

Spec == Init /\ [][Next]_vars

\* ------------------------------------------- sessions of capture
\* A program that starts continuous capture only while no capture loop is
\* left over from an earlier start, as main() and the examples do with their
\* one start: every caller operation is allowed, single_cycle included.
StartAfterExit ==
    /\ \A t \in Threads : ~Alive(t)
    /\ Start

SessionNext ==
    \/ CallSingleCycle
    \/ CycleStep(Caller)
    \/ Unwind
    \/ StartAfterExit
    \/ StartReset
    \/ StartSpawn
    \/ Stop
    \/ JoinDone
    \/ JoinTimeout
    \/ Cleanup
    \/ \E t \in Threads : ThreadStep(t)

SessionSpec == Init /\ [][SessionNext]_vars

\* Threads are scheduled by the operating system: a thread that can take a
\* step eventually takes one.
SessionLive == SessionSpec /\ \A t \in Threads : WF_vars(ThreadStep(t))

\* ------------------------------------------- the history of one sensor
\* capture_pulse_series appends one successful reading to the history of
\* sensor 1; the timestamp numbers the appends.
HistAppend ==
    /\ Len(appended) < MaxAppends
    /\ LET m == PulseWidthMeasurement(1, (Len(appended) % Pulses) + 1,
                                      Len(appended) + 1) IN
        /\ measurements' = [measurements EXCEPT ![1] = DequeAppend(@, m)]
        /\ appended' = Append(appended, m)
    /\ UNCHANGED <<aux, ctl, cycle_count, pin, pc, sen, idx, reg, ev, ncycles>>

HistNext == HistAppend

HistSpec == Init /\ [][HistNext]_vars

\* --------------------------- capture_pulse_series, statement by statement
\* The agents that call sensor1.capture_pulse_series through single_cycle:
\* the caller, and the capture loop thread.  The rest of the cycle around
\* the call is left out here: an agent outside the call is at its rest
\* position.
CapAgents == {Caller, 1}

RestPc(a) == IF a = Caller THEN "idle" ELSE "none"

InCapture(a) == pc[a] \in {"cap_read", "cap_stamp", "cap_lock", "cap_append",
                           "cap_cb", "cap_next"}

\* set_callbacks: the caller registers a callback.
SetCallbacks ==
    /\ pc[Caller] = "idle"
    /\ ~callback
    /\ callback' = TRUE
    /\ UNCHANGED <<serv, extv, ctl, ghost, cycle_count, measurements, pin, pc, sen, idx,
                   reg, ev, now, lock, local, outs, cbs, ret, ncalls,
                   prev_empty>>

\* measurements = [] and the first iteration of the for loop.
CapCall(a) ==
    /\ pc[a] = RestPc(a)
    /\ ncalls < MaxCalls
    /\ ncalls' = ncalls + 1
    /\ pc' = [pc EXCEPT ![a] = "cap_read"]
    /\ idx' = [idx EXCEPT ![a] = 1]
    /\ local' = [local EXCEPT ![a] = <<>>]
    /\ outs' = [outs EXCEPT ![a] = <<>>]
    /\ cbs' = [cbs EXCEPT ![a] = 0]
    /\ prev_empty' = [prev_empty EXCEPT ![a] = (ret[a] = Returned(<<>>))]
    /\ ret' = [ret EXCEPT ![a] = NoResult]
    /\ UNCHANGED <<serv, extv, ctl, ghost, cycle_count, measurements, pin, sen, reg, ev,
                   now, lock, callback>>

\* distance_inches = self.read_serial_measurement(): None (port closed,
\* timeout, malformed line, exception swallowed) or a distance.
CapRead_FailCallsBack(a) ==
    /\ pc[a] = "cap_read"
    /\ \E got \in {"F", "ok"} :
        /\ outs' = [outs EXCEPT ![a] = Append(@, got)]
        /\ pc' = [pc EXCEPT ![a] = IF got = "ok" THEN "cap_stamp"
                                   ELSE "cap_next"]
        /\ cbs' = [cbs EXCEPT ![a] = IF got = "F" /\ callback THEN @ + 1
                                     ELSE @]
    /\ UNCHANGED <<serv, extv, ctl, ghost, cycle_count, measurements, pin, sen, idx, reg,
                   ev, now, lock, local, ret, ncalls, prev_empty,
                   callback>>

CapRead(a) ==
    /\ pc[a] = "cap_read"
    /\ \E got \in {"F", "ok"} :
        /\ outs' = [outs EXCEPT ![a] = Append(@, got)]
        /\ pc' = [pc EXCEPT ![a] = IF got = "ok" THEN "cap_stamp"
                                   ELSE "cap_next"]
    /\ UNCHANGED <<serv, extv, ctl, ghost, cycle_count, measurements, pin, sen, idx, reg,
                   ev, now, lock, local, cbs, ret, ncalls, prev_empty,
                   callback>>

\* measurement = PulseWidthMeasurement(..., pulse_number=pulse_num,
\* timestamp=time.time()); measurements.append(measurement).  The clock
\* moves on with every reading of it.
CapStamp(a) ==
    /\ pc[a] = "cap_stamp"
    /\ local' = [local EXCEPT ![a] =
                   Append(@, PulseWidthMeasurement(1, idx[a], now))]
    /\ now' = now + 1
    /\ pc' = [pc EXCEPT ![a] = "cap_lock"]
    /\ UNCHANGED <<serv, extv, ctl, ghost, cycle_count, measurements, pin, sen, idx, reg,
                   ev, lock, outs, cbs, ret, ncalls, prev_empty, callback>>

\* with self._lock: (the lock is taken)
CapAcquire(a) ==
    /\ pc[a] = "cap_lock"
    /\ lock = Free
    /\ lock' = a
    /\ pc' = [pc EXCEPT ![a] = "cap_append"]
    /\ UNCHANGED <<serv, extv, ctl, ghost, cycle_count, measurements, pin, sen, idx, reg,
                   ev, now, local, outs, cbs, ret, ncalls, prev_empty,
                   callback>>

\* self.measurements.append(measurement), and the lock is released.
CapAppend_KeepsLock(a) ==
    /\ pc[a] = "cap_append"
    /\ measurements' = [measurements EXCEPT ![1] =
                          DequeAppend(@, local[a][Len(local[a])])]
    /\ pc' = [pc EXCEPT ![a] = "cap_cb"]
    /\ UNCHANGED <<serv, extv, ctl, ghost, cycle_count, pin, sen, idx, reg, ev, now,
                   lock, local, outs, cbs, ret, ncalls, prev_empty, callback>>

CapAppend(a) ==
    /\ pc[a] = "cap_append"
    /\ measurements' = [measurements EXCEPT ![1] =
                          DequeAppend(@, local[a][Len(local[a])])]
    /\ lock' = Free
    /\ pc' = [pc EXCEPT ![a] = "cap_cb"]
    /\ UNCHANGED <<serv, extv, ctl, ghost, cycle_count, pin, sen, idx, reg, ev, now,
                   local, outs, cbs, ret, ncalls, prev_empty, callback>>

\* if self.callback: self.callback(measurement).  The callback returns, or
\* raises and its exception leaves capture_pulse_series.
CapCallback(a) ==
    /\ pc[a] = "cap_cb"
    /\ IF callback
         THEN /\ cbs' = [cbs EXCEPT ![a] = @ + 1]
              /\ \/ /\ pc' = [pc EXCEPT ![a] = "cap_next"]
                    /\ UNCHANGED <<ret, local, idx>>
                 \/ /\ pc' = [pc EXCEPT ![a] = RestPc(a)]
                    /\ ret' = [ret EXCEPT ![a] = Raised]
                    /\ local' = [local EXCEPT ![a] = <<>>]
                    /\ idx' = [idx EXCEPT ![a] = 0]
         ELSE /\ pc' = [pc EXCEPT ![a] = "cap_next"]
              /\ UNCHANGED <<cbs, ret, local, idx>>
    /\ UNCHANGED <<serv, extv, ctl, ghost, cycle_count, measurements, pin, sen, reg, ev,
                   now, lock, outs, ncalls, prev_empty, callback>>

\* time.sleep(0.001), then the next pulse_num, or "return measurements".
CapNext_StopsAfterFailure(a) ==
    /\ pc[a] = "cap_next"
    /\ IF idx[a] < Pulses /\ outs[a][Len(outs[a])] = "ok"
         THEN /\ idx' = [idx EXCEPT ![a] = @ + 1]
              /\ pc' = [pc EXCEPT ![a] = "cap_read"]
              /\ UNCHANGED <<ret, local>>
         ELSE /\ idx' = [idx EXCEPT ![a] = 0]
              /\ pc' = [pc EXCEPT ![a] = RestPc(a)]
              /\ ret' = [ret EXCEPT ![a] = Returned(local[a])]
              /\ local' = [local EXCEPT ![a] = <<>>]
    /\ UNCHANGED <<serv, extv, ctl, ghost, cycle_count, measurements, pin, sen, reg, ev,
                   now, lock, outs, cbs, ncalls, prev_empty, callback>>

CapNext(a) ==
    /\ pc[a] = "cap_next"
    /\ IF idx[a] < Pulses
         THEN /\ idx' = [idx EXCEPT ![a] = @ + 1]
              /\ pc' = [pc EXCEPT ![a] = "cap_read"]
              /\ UNCHANGED <<ret, local>>
         ELSE /\ idx' = [idx EXCEPT ![a] = 0]
              /\ pc' = [pc EXCEPT ![a] = RestPc(a)]
              /\ ret' = [ret EXCEPT ![a] = Returned(local[a])]
              /\ local' = [local EXCEPT ![a] = <<>>]
    /\ UNCHANGED <<serv, extv, ctl, ghost, cycle_count, measurements, pin, sen, reg, ev,
                   now, lock, outs, cbs, ncalls, prev_empty, callback>>

\* get_recent_measurements: "with self._lock:" is entered.
RecentAcquire ==
    /\ pc[Caller] = "idle"
    /\ lock = Free
    /\ lock' = Caller
    /\ pc' = [pc EXCEPT ![Caller] = "copy_recent"]
    /\ UNCHANGED <<serv, extv, ctl, ghost, cycle_count, measurements, pin, sen, idx, reg,
                   ev, now, local, outs, cbs, ret, ncalls, prev_empty,
                   callback>>

\* get_recent_measurements: list(self.measurements)[-count:] is built and
\* the lock released.
RecentCopied ==
    /\ pc[Caller] = "copy_recent"
    /\ lock' = Free
    /\ pc' = [pc EXCEPT ![Caller] = "idle"]
    /\ UNCHANGED <<serv, extv, ctl, ghost, cycle_count, measurements, pin, sen, idx, reg,
                   ev, now, local, outs, cbs, ret, ncalls, prev_empty,
                   callback>>

\* get_all_measurements (also through save_to_csv) and print_statistics:
\* list(sensor.measurements) begins.
AllBegin ==
    /\ pc[Caller] = "idle"
    /\ pc' = [pc EXCEPT ![Caller] = "copy_all"]
    /\ UNCHANGED <<serv, extv, ctl, ghost, cycle_count, measurements, pin, sen, idx, reg,
                   ev, capv>>

\* list(sensor.measurements) is complete.
AllCopied ==
    /\ pc[Caller] = "copy_all"
    /\ pc' = [pc EXCEPT ![Caller] = "idle"]
    /\ UNCHANGED <<serv, extv, ctl, ghost, cycle_count, measurements, pin, sen, idx, reg,
                   ev, capv>>

CaptureNext ==
    \/ SetCallbacks
    \/ RecentAcquire
    \/ RecentCopied
    \/ AllBegin
    \/ AllCopied
    \/ \E a \in CapAgents :
         \/ CapCall(a)
         \/ CapRead(a)
         \/ CapStamp(a)
         \/ CapAcquire(a)
         \/ CapAppend(a)
         \/ CapCallback(a)
         \/ CapNext(a)

CaptureSpec == Init /\ [][CaptureNext]_vars

\* Calls of capture_pulse_series that do not overlap on the sensor, as in a
\* program whose cycles are run by one thread at a time; the caller's
\* snapshot reads stay concurrent with them.
CapCallAlone(a) ==
    /\ \A b \in CapAgents : ~InCapture(b)
    /\ CapCall(a)

SeriesNext ==
    \/ SetCallbacks
    \/ RecentAcquire
    \/ RecentCopied
    \/ AllBegin
    \/ AllCopied
    \/ \E a \in CapAgents :
         \/ CapCallAlone(a)
         \/ CapRead(a)
         \/ CapStamp(a)
         \/ CapAcquire(a)
         \/ CapAppend(a)
         \/ CapCallback(a)
         \/ CapNext(a)

SeriesSpec == Init /\ [][SeriesNext]_vars

\* ------------------------------------------- continuous_mode.SoftwareSerial
\* The line as GPIO.input sees it, one level (1 = HIGH, 0 = LOW) per half
\* bit period.  A byte travels as a frame: start bit LOW, 8 data bits least
\* significant first, stop bit HIGH.
Bit(v, i) == (v \div (2 ^ i)) % 2

Frame(v) ==
    <<0, 0>> \o [k \in 1..16 |-> Bit(v, (k - 1) \div 2)] \o <<1, 1>>

\* A LOW level that is over before the middle of a bit (noise on the line).
Glitch == -2

RECURSIVE Encode(_)
Encode(m) ==
    IF m = <<>> THEN <<>>
    ELSE (IF Head(m) = Glitch THEN <<0, 1>> ELSE Frame(Head(m)))
           \o Encode(Tail(m))

\* The line idles HIGH before the transmission, and after it for good.
Wire == <<1>> \o Encode(items)

Level(k) == IF k \in 1..Len(Wire) THEN Wire[k] ELSE 1

HasLow(k)  == \E j \in k..Len(Wire) : Wire[j] = 0
NextLow(k) == CHOOSE j \in k..Len(Wire) :
                  Wire[j] = 0 /\ \A i \in k..(j - 1) : Wire[i] = 1

\* The transmissions explored: every byte value alone, every sequence of up
\* to MaxItems items of a small alphabet ('R', '1', LF, 0xC8, CR, a glitch),
\* and the line R123 with its CR.
Alphabet == {82, 49, 10, 200, CR, Glitch}

Messages ==
    {<<v>> : v \in 0..255}
      \cup UNION {[1..n -> Alphabet] : n \in 1..MaxItems}
      \cup {<<82, 49, 50, 51, CR>>}

\* read_line is called: line = [], start = time.time().
ReadLineCall ==
    /\ rl = "idle"
    /\ \E m \in Messages : items' = m
    /\ line' = <<>>
    /\ rl_start' = tick
    /\ rl' = "loop"
    /\ UNCHANGED <<base, capv, extv, tick, result, closed, rb, rb_start, nbit, byte,
                   rl_b, decoded>>

\* "while time.time() - start < timeout": read_byte is called, or the loop
\* ends and read_line returns "''.join(line) if line else None".
ReadLineTest ==
    /\ rl = "loop"
    /\ IF tick - rl_start < LineTimeout
         THEN /\ rl' = "in_byte"
              /\ rb' = "wait"
              /\ rb_start' = tick
              /\ UNCHANGED result
         ELSE /\ rl' = "done"
              /\ result' = IF line # <<>> THEN Line(line) ELSE NoLine
              /\ UNCHANGED <<rb, rb_start>>
    /\ UNCHANGED <<base, capv, extv, items, tick, rl_start, line, closed, nbit,
                   byte, rl_b, decoded>>

\* read_byte: "while GPIO.input(self.pin) == GPIO.HIGH", until the line is
\* LOW or more than timeout has passed.
ByteWait ==
    /\ rb = "wait"
    /\ IF HasLow(tick) /\ NextLow(tick) - rb_start <= ByteTimeout + 1
         THEN /\ tick' = NextLow(tick)
              /\ rb' = "start"
              /\ UNCHANGED rl_b
         ELSE /\ tick' = rb_start + ByteTimeout + 1
              /\ rb' = "ret"
              /\ rl_b' = None
    /\ UNCHANGED <<base, capv, extv, items, rl, rl_start, line, result, closed,
                   rb_start, nbit, byte, decoded>>

\* read_byte: sleep(BIT_DURATION / 2), then the test of the start bit.
ByteStart_NoCheck ==
    /\ rb = "start"
    /\ tick' = tick + 1
    /\ rb' = "bits"
    /\ byte' = 0
    /\ nbit' = 0
    /\ UNCHANGED <<base, capv, extv, items, rl, rl_start, line, result, closed,
                   rb_start, rl_b, decoded>>

ByteStart ==
    /\ rb = "start"
    /\ tick' = tick + 1
    /\ IF Level(tick + 1) # 0
         THEN /\ rb' = "ret"
              /\ rl_b' = None
              /\ UNCHANGED <<byte, nbit>>
         ELSE /\ rb' = "bits"
              /\ byte' = 0
              /\ nbit' = 0
              /\ UNCHANGED rl_b
    /\ UNCHANGED <<base, capv, extv, items, rl, rl_start, line, result, closed,
                   rb_start, decoded>>

\* read_byte: one iteration of "for i in range(8)".
ByteBit_MsbFirst ==
    /\ rb = "bits"
    /\ tick' = tick + BitTicks
    /\ byte' = byte + Level(tick + BitTicks) * (2 ^ (7 - nbit))
    /\ nbit' = nbit + 1
    /\ rb' = IF nbit + 1 = 8 THEN "stop" ELSE "bits"
    /\ UNCHANGED <<base, capv, extv, items, rl, rl_start, line, result, closed,
                   rb_start, rl_b, decoded>>

ByteBit ==
    /\ rb = "bits"
    /\ tick' = tick + BitTicks
    /\ byte' = byte + Level(tick + BitTicks) * (2 ^ nbit)
    /\ nbit' = nbit + 1
    /\ rb' = IF nbit + 1 = 8 THEN "stop" ELSE "bits"
    /\ UNCHANGED <<base, capv, extv, items, rl, rl_start, line, result, closed,
                   rb_start, rl_b, decoded>>

\* read_byte: sleep(BIT_DURATION) for the stop bit, return byte.
ByteStop ==
    /\ rb = "stop"
    /\ tick' = tick + BitTicks
    /\ rl_b' = byte
    /\ decoded' = Append(decoded, byte)
    /\ rb' = "ret"
    /\ UNCHANGED <<base, capv, extv, items, rl, rl_start, line, result, closed,
                   rb_start, nbit, byte>>

\* read_line: what it does with b.
ReadLineGot_KeepsControl ==
    /\ rl = "in_byte"
    /\ rb = "ret"
    /\ rb' = "off"
    /\ IF rl_b = None
         THEN /\ rl' = "loop"
              /\ UNCHANGED <<line, result, closed>>
         ELSE IF rl_b = CR
         THEN /\ rl' = "done"
              /\ closed' = TRUE
              /\ result' = IF line # <<>> THEN Line(line) ELSE NoLine
              /\ UNCHANGED line
         ELSE /\ rl' = "loop"
              /\ line' = Append(line, rl_b)
              /\ UNCHANGED <<result, closed>>
    /\ UNCHANGED <<base, capv, extv, items, tick, rl_start, rb_start, nbit, byte,
                   rl_b, decoded>>

ReadLineGot ==
    /\ rl = "in_byte"
    /\ rb = "ret"
    /\ rb' = "off"
    /\ IF rl_b = None
         THEN /\ rl' = "loop"
              /\ UNCHANGED <<line, result, closed>>
         ELSE IF rl_b = CR
         THEN /\ rl' = "done"
              /\ closed' = TRUE
              /\ result' = IF line # <<>> THEN Line(line) ELSE NoLine
              /\ UNCHANGED line
         ELSE /\ rl' = "loop"
              /\ line' = IF FirstPrintable <= rl_b /\ rl_b <= LastPrintable
                           THEN Append(line, rl_b) ELSE line
              /\ UNCHANGED <<result, closed>>
    /\ UNCHANGED <<base, capv, extv, items, tick, rl_start, rb_start, nbit, byte,
                   rl_b, decoded>>

SerialNext ==
    \/ ReadLineCall
    \/ ReadLineTest
    \/ ByteWait
    \/ ByteStart
    \/ ByteBit
    \/ ByteStop
    \/ ReadLineGot

SerialSpec == Init /\ [][SerialNext]_vars

\* ------------------------------- read_line called during a transmission
\* continuous_mode.main reads the two sensors in turn while both transmit
\* all the time, so a read begins at any moment of a transmission.
LateMessages ==
    UNION {[1..n -> Alphabet] : n \in 1..2} \cup {<<82, 49, 50, 51, CR>>}

ReadLineCallLate ==
    /\ rl = "idle"
    /\ \E m \in LateMessages :
        /\ items' = m
        /\ \E k \in 1..(Len(Encode(m)) + 1) :
            /\ tick' = k
            /\ rl_start' = k
    /\ line' = <<>>
    /\ rl' = "loop"
    /\ UNCHANGED <<base, capv, extv, result, closed, rb, rb_start, nbit, byte,
                   rl_b, decoded>>

LateNext ==
    \/ ReadLineCallLate
    \/ ReadLineTest
    \/ ByteWait
    \/ ByteStart
    \/ ByteBit
    \/ ByteStop
    \/ ReadLineGot

LateSpec == Init /\ [][LateNext]_vars

\* ---------------------------------------------------- ultrasonic_capture.main
\* What main leaves alone in every step.
main_frame == <<cycle_count, measurements, pin, sen, idx, reg, ev, ghost,
                stop_returned, capv, serv, parsev, csvv, recv, progv>>

\* controller.setup(): GPIO.setmode and setup_gpio, which may raise, then
\* setup_serial for each sensor, which returns False when the port cannot
\* be opened (setup prints a warning and goes on).  An exception of setup
\* is caught by main's "except Exception" and leads to the finally block.
MainSetup ==
    /\ main_pc = "setup"
    /\ \/ /\ \E o \in [Sensors -> BOOLEAN] : port_open' = o
          /\ main_pc' = "start"
       \/ /\ main_pc' = "finally"
          /\ UNCHANGED port_open
    /\ UNCHANGED <<main_frame, is_running, capture_thread, gpio_clean, pc,
                   ncleanup>>

\* controller.start_continuous_capture(...): no capture loop exists yet, so
\* the flag is set, cycle_count reset and the thread started.
MainStart ==
    /\ main_pc = "start"
    /\ ~is_running
    /\ is_running' = TRUE
    /\ capture_thread' = 1
    /\ pc' = [pc EXCEPT ![1] = "check"]
    /\ main_pc' = "poll"
    /\ UNCHANGED <<sen, idx, reg, ev, ghost, measurements, pin, stop_returned,
                   capv, serv, parsev, csvv, recv, progv, gpio_clean, port_open,
                   ncleanup>>
    /\ cycle_count' = 0

\* Ctrl+C (KeyboardInterrupt) or an exception in the try block, before the
\* start or in "while controller.is_running: time.sleep(1)": the except
\* clause prints and the finally block begins.
MainInterrupt ==
    /\ main_pc \in {"start", "poll"}
    /\ main_pc' = "finally"
    /\ UNCHANGED <<main_frame, is_running, capture_thread, gpio_clean, pc,
                   port_open, ncleanup>>

\* finally: controller.stop_continuous_capture(), up to the join.
MainStop ==
    /\ main_pc = "finally"
    /\ IF is_running
         THEN /\ is_running' = FALSE
              /\ main_pc' = "join"
         ELSE /\ main_pc' = "save"
              /\ UNCHANGED is_running
    /\ UNCHANGED <<main_frame, capture_thread, gpio_clean, pc, port_open,
                   ncleanup>>

\* capture_thread.join(timeout=2.0) returns: the thread has ended, or the
\* 2 s are over.
MainJoin ==
    /\ main_pc = "join"
    /\ main_pc' = "save"
    /\ UNCHANGED <<main_frame, is_running, capture_thread, gpio_clean, pc,
                   port_open, ncleanup>>

\* controller.save_to_csv() and the count printed after it: they return, or
\* os.makedirs / open / the writer raise and the exception leaves main.
MainSave ==
    /\ main_pc = "save"
    /\ main_pc' \in {"stats", "exited"}
    /\ UNCHANGED <<main_frame, is_running, capture_thread, gpio_clean, pc,
                   port_open, ncleanup>>

\* controller.print_statistics(): it returns, or a print raises and the
\* exception leaves main.
MainStats ==
    /\ main_pc = "stats"
    /\ main_pc' \in {"cleanup", "exited"}
    /\ UNCHANGED <<main_frame, is_running, capture_thread, gpio_clean, pc,
                   port_open, ncleanup>>

\* controller.cleanup(): GPIO.cleanup(), and main ends.
MainCleanup ==
    /\ main_pc = "cleanup"
    /\ gpio_clean' = TRUE
    /\ ncleanup' = ncleanup + 1
    /\ main_pc' = "exited"
    /\ UNCHANGED <<main_frame, is_running, capture_thread, pc, port_open>>

\* The capture loop thread, a daemon thread that lives while main does;
\* a sensor whose port is not open delivers no reading
\* (read_serial_measurement returns None at once).
MainThreadStep(t) ==
    /\ main_pc # "exited"
    /\ ThreadStep(t)
    /\ (pc[t] = "read" /\ ~port_open[sen[t]]) => measurements' = measurements

MainNext ==
    \/ MainSetup
    \/ MainStart
    \/ MainInterrupt
    \/ MainStop
    \/ MainJoin
    \/ MainSave
    \/ MainStats
    \/ MainCleanup
    \/ \E t \in Threads : MainThreadStep(t)

MainSpec == Init /\ [][MainNext]_vars

\* =========================================================== the claims

\* C1: under every interleaving of start, stop and single_cycle with the
\* capture loop, at most one agent is between the start of a trigger() and
\* the end of the capture_pulse_series() that follows it.
C1_OneSectionAtATime == Cardinality({a \in Agents : InSection(a)}) <= 1

\* C2: within every single_cycle the events are, in this order, trigger 1,
\* Pulses reads of sensor 1, the pause, trigger 2, Pulses reads of sensor 2:
\* the events so far are always a prefix of that sequence, and a cycle
\* returns only with the whole sequence done.
C2_CycleOrder ==
    /\ [](\A a \in Agents : IsPrefix(ev[a], FullCycle(Pulses)))
    /\ [][\A a \in Agents :
            (InCycle(a) /\ pc'[a] = ReturnPc(a))
              => Append(ev[a], "R2") = FullCycle(Pulses)]_vars

C2_Witness ==
    \E a \in Agents :
        /\ pc[a] = "read" /\ sen[a] = 2 /\ idx[a] = Pulses
        /\ Append(ev[a], "R2") = FullCycle(Pulses)

\* C3: once a cycle of the capture loop has triggered sensor 1, clearing
\* is_running does not end it: with is_running false the loop thread leaves
\* the cycle only by its normal return, having triggered sensor 2 and made
\* all Pulses read attempts on both sensors, or by an exception.
C3_StopKeepsCycle ==
    [][\A t \in Threads :
         (InCycle(t) /\ ev[t] # <<>> /\ ~is_running /\ ~InCycle(t)')
           => \/ pc'[t] = "caught"
              \/ /\ pc'[t] = "sleep"
                 /\ Append(ev[t], "R2") = FullCycle(Pulses)]_vars

C3_Witness ==
    \E t \in Threads :
        /\ ~is_running /\ pc[Caller] = "join" /\ capture_thread = t
        /\ pc[t] = "read" /\ sen[t] = 2 /\ idx[t] = Pulses

\* C4: while is_running is false a loop thread that reaches the loop test
\* starts no cycle, it can only leave the loop; and unless is_running is set
\* again all loop threads that are alive eventually have exited.
C4_StopBounded ==
    /\ [][\A t \in Threads :
            (~is_running /\ pc[t] \in {"sleep", "caught", "check"})
              => /\ ~InCycle(t)'
                 /\ pc[t] = "check" => pc'[t] \in {"check", "done"}]_vars
    /\ (~is_running /\ \E t \in Threads : Alive(t))
          ~> (is_running \/ \A t \in Threads : ~Alive(t))

C4_Witness ==
    \E t \in Threads : ~is_running /\ pc[t] = "sleep" /\ pc[Caller] = "join"

\* C5: when stop_continuous_capture has returned, no capture loop thread is
\* alive any more.
C5_StopJoinsLoop == stop_returned => \A t \in Threads : ~Alive(t)

\* C6: at most one capture-loop thread is executing a cycle at any time.
C6_OneLoop == Cardinality({t \in Threads : InCycle(t)}) <= 1

\* C7: the "cycle_count += 1" of every single_cycle leaves cycle_count
\* exactly 1 above what it was.
C7_CycleAddsOne ==
    [][\A a \in Agents :
         (pc[a] = "inc_store" /\ pc'[a] # "inc_store")
           => cycle_count' = cycle_count + 1]_vars

\* C8: cycle_count is incremented only by a step that completes an
\* alternation, the return of a single_cycle after the last read attempt
\* on sensor 2.
C8_CountIsCompleted ==
    [][cycle_count' > cycle_count
         => \E a \in Agents :
              /\ pc[a] = "read" /\ sen[a] = 2 /\ idx[a] = Pulses
              /\ pc'[a] = ReturnPc(a)]_vars

\* C9: cycle_count never decreases.
C9_CountMonotonic == [][cycle_count' >= cycle_count]_vars

\* C10: a history never holds more than HistoryMaxLen entries, and it holds
\* exactly the last HistoryMaxLen entries appended (all of them while there
\* are fewer), in the order of their insertion.
LastOf(q, n) == SubSeq(q, Len(q) - n + 1, Len(q))

C10_HistoryBounded ==
    /\ Len(measurements[1]) <= HistoryMaxLen
    /\ measurements[1] =
         LastOf(appended, IF Len(appended) < HistoryMaxLen
                            THEN Len(appended) ELSE HistoryMaxLen)

C10_Witness ==
    /\ Len(appended) = HistoryMaxLen + 1
    /\ Len(measurements[1]) = HistoryMaxLen
    /\ measurements[1][1] = appended[2]
    /\ measurements[1][HistoryMaxLen] = appended[HistoryMaxLen + 1]

\* C11: no snapshot copy of a sensor's history by the caller (through
\* get_recent_measurements, get_all_measurements, print_statistics or
\* save_to_csv) is in progress while the capture thread is inside the
\* locked append of capture_pulse_series.
C11_NoCopyDuringAppend ==
    ~(pc[Caller] \in {"copy_recent", "copy_all"} /\ pc[1] = "cap_append")

\* C12: in every reachable state the timestamps of the entries of a
\* sensor's history are non-decreasing from the oldest to the newest.
C12_TimestampsOrdered ==
    \A i, j \in 1..Len(measurements[1]) :
        i < j => measurements[1][i].timestamp <= measurements[1][j].timestamp

\* The attempt numbers at which a call's reads succeeded, in order.
RECURSIVE OkFrom(_, _)
OkFrom(o, i) ==
    IF i > Len(o) THEN <<>>
    ELSE (IF o[i] = "ok" THEN <<i>> ELSE <<>>) \o OkFrom(o, i + 1)

PulseNumbers(l) == [k \in 1..Len(l) |-> l[k].pulse_number]

\* s occurs in t as a subsequence, in the order of s
RECURSIVE IsSubSeq(_, _)
IsSubSeq(s, t) ==
    IF s = <<>> THEN TRUE
    ELSE IF t = <<>> THEN FALSE
    ELSE IF Head(s) = Head(t) THEN IsSubSeq(Tail(s), Tail(t))
    ELSE IsSubSeq(s, Tail(t))

\* C13: a call of capture_pulse_series(Pulses) that returns has made
\* exactly Pulses read attempts whatever attempts failed; its result holds
\* exactly the successful readings in the order of their attempts, between
\* 0 and Pulses of them, and these are in the history in that order.
C13_SeriesResult ==
    \A a \in CapAgents :
        ret[a].kind = "list"
          => /\ Len(outs[a]) = Pulses
             /\ PulseNumbers(ret[a].val) = OkFrom(outs[a], 1)
             /\ Len(ret[a].val) <= Pulses
             /\ IsSubSeq(ret[a].val, measurements[1])

C13_Witness ==
    \E a \in CapAgents :
        /\ ret[a].kind = "list"
        /\ ret[a].val # <<>>
        /\ outs[a][1] = "F"

AllFailed(o) == \A k \in 1..Len(o) : o[k] = "F"

\* C14: a failed read attempt appends nothing and invokes no callback; a
\* call whose attempts all failed returns the empty list and never raises;
\* and a later call on the same sensor whose reads all succeed returns
\* all Pulses readings.
C14_AllFailedIsEmpty ==
    /\ [][\A a \in CapAgents :
            (pc[a] = "cap_read" /\ pc'[a] = "cap_next")
              => measurements' = measurements /\ cbs' = cbs]_vars
    /\ [](\A a \in CapAgents :
            /\ (ret[a].kind = "list" /\ AllFailed(outs[a]))
                 => ret[a].val = <<>> /\ cbs[a] = 0
            /\ ret[a].kind = "raised" => ~AllFailed(outs[a])
            /\ (prev_empty[a] /\ ret[a].kind = "list"
                  /\ OkFrom(outs[a], 1) = [k \in 1..Pulses |-> k])
                 => Len(ret[a].val) = Pulses)

C14_Witness ==
    \E a \in CapAgents :
        /\ callback
        /\ prev_empty[a]
        /\ ret[a].kind = "list"
        /\ Len(ret[a].val) = Pulses

\* C15: in the list one capture_pulse_series call returns, pulse_number is
\* strictly increasing and the first entry has pulse_number 1.
C15_PulseNumbersFromOne ==
    \A a \in CapAgents :
        (ret[a].kind = "list" /\ ret[a].val # <<>>)
          => /\ ret[a].val[1].pulse_number = 1
             /\ \A i, j \in 1..Len(ret[a].val) :
                  i < j => ret[a].val[i].pulse_number
                             < ret[a].val[j].pulse_number

\* C16: the capture loop ends only at a loop test that finds is_running
\* false; an exception that left a cycle is caught and takes the loop back
\* to its test, and while is_running stays true the loop then runs a
\* further cycle (as long as the MaxCycles cycles explored are not used up).
C16_LoopSurvivesFailures ==
    /\ [][\A t \in Threads :
            /\ (pc[t] # "done" /\ pc'[t] = "done")
                 => (pc[t] = "check" /\ ~is_running)
            /\ (pc[t] = "caught" /\ pc'[t] # "caught") => pc'[t] = "check"
            /\ (pc[t] = "check" /\ is_running /\ pc'[t] # "check")
                 => InCycle(t)']_vars
    /\ (is_running /\ \E t \in Threads : pc[t] = "caught")
          ~> (~is_running \/ ncycles = MaxCycles
                \/ \E t \in Threads : InCycle(t))

C16_Witness ==
    \E t \in Threads : is_running /\ pc[t] = "caught" /\ ncycles < MaxCycles

\* C17: read_line returns a line only when a carriage return closed it; when
\* its timeout ends the loop it returns no result.
C17_LineClosedByCR == (rl = "done" /\ result.kind = "line") => closed

\* The bytes of the frames transmitted, in order.
SentBytes == SelectSeq(items, LAMBDA x : x # Glitch)

\* C18: the bytes read_byte returns are the bytes of the frames sent, in
\* order, and a frame of any byte value 0..255 sent alone on a line that was
\* idle HIGH is returned as exactly that value.
C18_ByteRoundTrip ==
    /\ IsPrefix(decoded, SentBytes)
    /\ (rl = "done" /\ Len(items) = 1 /\ items[1] \in 0..255)
         => decoded = items

C18_Witness ==
    /\ rl = "in_byte" /\ rb = "ret"
    /\ items = <<82>> /\ rl_b = 82 /\ decoded = <<82>>

\* The printable bytes of a transmission that precede its first CR.
RECURSIVE BeforeCR(_)
BeforeCR(m) ==
    IF m = <<>> \/ Head(m) = CR THEN <<>> ELSE <<Head(m)>> \o BeforeCR(Tail(m))

Printable(m) ==
    SelectSeq(m, LAMBDA x : FirstPrintable <= x /\ x <= LastPrintable)

HasCR == \E k \in 1..Len(items) : items[k] = CR

\* C19 as stated: for every transmission that holds a CR, read_line returns
\* the line made of the bytes in 0x20..0x7E received before the first CR.
C19_LineIsPrintablePrefix ==
    (rl = "done" /\ HasCR) => result = Line(Printable(BeforeCR(SentBytes)))

\* C19, amended: read_line returns that line when it has at least one
\* character, and no result when no printable byte preceded the CR.
C19_LineOrNothing ==
    (rl = "done" /\ HasCR)
      => result = IF Printable(BeforeCR(SentBytes)) = <<>> THEN NoLine
                  ELSE Line(Printable(BeforeCR(SentBytes)))

C19_Witness ==
    /\ rl = "done"
    /\ items = <<82, 49, 50, 51, CR>>
    /\ result = Line(<<82, 49, 50, 51>>)

\* C20: when the line is HIGH at the half-bit sample after a start edge,
\* read_byte returns None without sampling a data bit, and read_line, given
\* None, adds nothing to the line and goes back to its loop test.
C20_FalseStartDiscarded ==
    [][/\ (rb = "start" /\ Level(tick + 1) = 1)
            => /\ rb' = "ret" /\ rl_b' = None
               /\ nbit' = nbit /\ byte' = byte /\ decoded' = decoded
       /\ (rl = "in_byte" /\ rb = "ret" /\ rl_b = None)
            => line' = line /\ rl' = "loop"]_vars

C20_Witness ==
    /\ rl = "in_byte" /\ rb = "ret" /\ rl_b = None
    /\ tick <= Len(Wire) /\ Level(tick) = 1 /\ Level(tick - 1) = 0

\* C21: read_byte takes a LOW level as a start bit only at a HIGH to LOW
\* transition of the line: either it has seen the line HIGH in this call,
\* or the line went LOW at the very moment of the call.  It never counts
\* its sample points from a LOW level found in the middle of a frame.
C21_StartOnObservedEdge ==
    [][(rb = "wait" /\ rb' = "start")
         => (tick' > rb_start \/ Level(tick' - 1) = 1)]_vars

\* C22: when a sensor's serial port could not be opened during setup(), no
\* capture cycle runs afterwards: no thread triggers a sensor or makes a
\* read attempt.
C22_NoCaptureAfterFailedSetup ==
    (main_pc # "setup" /\ \E s \in Sensors : ~port_open[s])
      => \A t \in Threads : ~InSection(t)

\* C23: when main has ended, on whatever path, GPIO.cleanup() has been
\* executed exactly once.
C23_CleanupOnce == main_pc = "exited" => ncleanup = 1

\* C24: a trigger pin is HIGH only while some agent is inside trigger() on
\* that sensor, between its two GPIO writes; trigger() returns with the pin
\* written LOW, and its steps make no read attempt and change no history.
C24_PinIdleLow ==
    /\ [](\A s \in Sensors :
            pin[s] = "HIGH"
              => \E a \in Agents : pc[a] = "trig_low" /\ sen[a] = s)
    /\ [][\A a \in Agents :
            /\ (pc[a] = "trig_low" /\ pc'[a] = "read")
                 => pin'[sen[a]] = "LOW"
            /\ (pc[a] \in {"trig_high", "trig_low"} /\ pc'[a] # pc[a])
                 => measurements' = measurements]_vars

\* A step of a single_cycle that the caller runs: its call, or a statement
\* of its body.
CallerCycleStep ==
    \/ pc[Caller] = "idle" /\ pc'[Caller] = "inc_store"
    \/ /\ InCycle(Caller)
       /\ <<pc[Caller], sen[Caller], idx[Caller]>>
            # <<pc'[Caller], sen'[Caller], idx'[Caller]>>

\* C25: no step of a single_cycle run by the caller changes is_running or
\* capture_thread, and the call returns to the caller after one pass
\* through the cycle body: trigger 1, Pulses reads, pause, trigger 2,
\* Pulses reads.
C25_SingleCycleFrame ==
    [][CallerCycleStep
         => /\ is_running' = is_running
            /\ capture_thread' = capture_thread
            /\ (pc'[Caller] = "idle"
                  => Append(ev[Caller], "R2") = FullCycle(Pulses))]_vars

C25_Witness ==
    /\ pc[Caller] = "read" /\ sen[Caller] = 2 /\ idx[Caller] = Pulses
    /\ Append(ev[Caller], "R2") = FullCycle(Pulses)
    /\ ~is_running /\ capture_thread = 0

\* C29: a capture loop that has ended a cycle, normally or with a caught
\* exception, comes back to its loop test only through
\* time.sleep(cycle_delay).
C29_SleepBetweenCycles ==
    [][\A t \in Threads :
         (pc'[t] = "check" /\ pc[t] \notin {"check", "none", "done"})
           => pc[t] = "sleep"]_vars

\* ------------------------------------------------- get_recent_measurements
\* Python's l[start:] for a list l: a negative start counts from the right
\* end, and start 0 (which -0 is) is the left end.
SliceFrom(l, start) ==
    LET n  == Len(l)
        st == IF start < 0
                THEN (IF n + start < 0 THEN 0 ELSE n + start)
                ELSE (IF start > n THEN n ELSE start)
    IN  SubSeq(l, st + 1, n)

\* capture_pulse_series appends one successful reading to the history of
\* sensor 1 under the lock.
RecentAppend ==
    /\ lock = Free
    /\ Len(measurements[1]) < MaxRecent
    /\ LET n == Len(measurements[1]) IN
        measurements' =
            [measurements EXCEPT
               ![1] = DequeAppend(@, PulseWidthMeasurement(1, (n % Pulses) + 1,
                                                           n + 1))]
    /\ UNCHANGED <<aux, ctl, ghost, cycle_count, pin, pc, sen, idx, reg, ev>>

\* get_recent_measurements(count) of sensor 1: under the lock,
\* list(self.measurements)[-count:].
GetRecent(count) ==
    /\ lock = Free
    /\ asked' = count
    /\ recent' = SliceFrom(measurements[1], 0 - count)
    /\ UNCHANGED <<base, capv, serv, mainv, parsev, csvv, progv>>

RecentNext ==
    \/ RecentAppend
    \/ \E count \in 0 .. MaxRecent + 1 : GetRecent(count)

RecentSpec == Init /\ [][RecentNext]_vars

\* The last k entries of l.
LastN(l, k) == SubSeq(l, Len(l) - k + 1, Len(l))

\* C30: get_recent_measurements(count) returns the last
\* min(count, length) entries of the history, in the order of the history;
\* count = 0 returns the empty list.
C30_RecentIsLastMin ==
    [][(asked' # asked \/ recent' # recent)
         => LET h == measurements[1]
                k == IF asked' < Len(h) THEN asked' ELSE Len(h)
            IN  recent' = LastN(h, k)]_vars

\* ------------------------------------------------- read_serial_measurement
\* Lengths are kept as exact fractions: a distance is a whole number of
\* 1/InchDen inch, so that distance_mm / 25.4 is distance_mm * 10 of them.
InchDen == 254

ByteR     == 82      \* ord('R')
Digits    == {48, 49}            \* '0', '1'
Space     == 32
Minus     == 45
NonAscii  == 200
SentAlphabet == {ByteR, Space, Minus, NonAscii, CR} \cup Digits

\* What the sensor may have sent when read_until is called.
SentLines == UNION {[1..n -> SentAlphabet] : n \in 0..MaxBytes}

\* Index of the first CR of l, 0 when it has none.
FirstCR(l) ==
    IF \E i \in 1..Len(l) : l[i] = CR
      THEN CHOOSE i \in 1..Len(l) :
               l[i] = CR /\ \A j \in 1..(i - 1) : l[j] # CR
      ELSE 0

\* serial_port.read_until(b'\r') with a timeout: the bytes through the
\* first CR, or, when the timeout ends the read, the bytes that arrived
\* before it.
ReadUntilResults(l) ==
    LET c == FirstCR(l) IN
      IF c > 0
        THEN {SubSeq(l, 1, k) : k \in 0..c}
        ELSE {SubSeq(l, 1, k) : k \in 0..Len(l)}

\* str.strip() for the whitespace of the alphabet.
RECURSIVE LStrip(_)
LStrip(l) ==
    IF l # <<>> /\ Head(l) \in {Space, CR} THEN LStrip(Tail(l)) ELSE l

RECURSIVE RStrip(_)
RStrip(l) ==
    IF l # <<>> /\ l[Len(l)] \in {Space, CR}
      THEN RStrip(SubSeq(l, 1, Len(l) - 1))
      ELSE l

Strip(l) == RStrip(LStrip(l))

\* The value of a string of decimal digits.
RECURSIVE Decimal(_)
Decimal(l) ==
    IF l = <<>> THEN 0
    ELSE 10 * Decimal(SubSeq(l, 1, Len(l) - 1)) + (l[Len(l)] - 48)

AllDigits(l) == l # <<>> /\ \A i \in 1..Len(l) : l[i] \in Digits

\* int(s): an optional sign and then digits, anything else raises
\* ValueError.
IntOk(l) ==
    \/ AllDigits(l)
    \/ l # <<>> /\ Head(l) = Minus /\ AllDigits(Tail(l))

IntOf(l) == IF Head(l) = Minus THEN 0 - Decimal(Tail(l)) ELSE Decimal(l)

\* line[1:-1]
Inner(l) == SubSeq(l, 2, Len(l) - 1)

\* Lines 109-120 for the line read: the distance, or None.
ParseLine(l) ==
    IF Len(l) > 0 /\ l[1] = ByteR
      THEN LET body == Inner(l) IN
             IF \E i \in 1..Len(body) : body[i] > 127
               THEN NoDistance                  \* decode('ascii') raises
               ELSE IF IntOk(Strip(body))
                      THEN Distance(IntOf(Strip(body)) * 10)
                      ELSE NoDistance           \* int() raises
      ELSE NoDistance

\* setup_serial of sensor 1: the port opens, or the exception is caught
\* and the sensor is left without an open port.
SetupSerial ==
    /\ rs_pc = "idle"
    /\ \E ok \in BOOLEAN : port_open' = [port_open EXCEPT ![1] = ok]
    /\ rs_pc' = "ready"
    /\ UNCHANGED <<base, capv, serv, main_pc, ncleanup, rx, sent_line, dist,
                   built, csvv, recv, progv>>

\* read_serial_measurement without an open port returns None.
ReadClosed ==
    /\ rs_pc = "ready"
    /\ ~port_open[1]
    /\ dist' = NoDistance
    /\ rx' = <<>>
    /\ sent_line' = <<>>
    /\ rs_pc' = "parsed"
    /\ UNCHANGED <<base, capv, serv, mainv, built, csvv, recv, progv>>

\* read_serial_measurement, line 110: read_until returns.
ReadUntil ==
    /\ rs_pc = "ready"
    /\ port_open[1]
    /\ \E l \in SentLines :
         /\ sent_line' = l
         /\ rx' \in ReadUntilResults(l)
    /\ rs_pc' = "line"
    /\ UNCHANGED <<base, capv, serv, mainv, dist, built, csvv, recv, progv>>

\* read_serial_measurement, lines 112-120.
ParseRead ==
    /\ rs_pc = "line"
    /\ dist' = ParseLine(rx)
    /\ rs_pc' = "parsed"
    /\ UNCHANGED <<base, capv, serv, mainv, rx, sent_line, built, csvv, recv, progv>>

\* capture_pulse_series, lines 132-143: the measurement built from the
\* distance, or none; the next read follows, and the line read and the
\* distance, locals of the calls that returned, are gone.
BuildMeasurement ==
    /\ rs_pc = "parsed"
    /\ built' =
         IF dist.kind = "inches"
           THEN [kind |-> "measurement",
                 distance_inches |-> dist.val,
                 pulse_width_us  |-> (dist.val * 58) \div 10]
           ELSE NoMeasurement
    /\ rs_pc' = "ready"
    /\ rx' = <<>>
    /\ sent_line' = <<>>
    /\ dist' = NoDistance
    /\ UNCHANGED <<base, capv, serv, mainv, csvv, recv, progv>>

ParseNext ==
    \/ SetupSerial
    \/ ReadClosed
    \/ ReadUntil
    \/ ParseRead
    \/ BuildMeasurement

ParseSpec == Init /\ [][ParseNext]_vars

\* C26: every measurement holds a pulse width above the signal-integrity
\* floor (here the weakest floor, zero), and its distance is that pulse
\* width divided by the calibration constant of 147 us per inch, to within
\* one per cent.
C26_DistanceFromPulseWidth ==
    built.kind = "measurement"
      => /\ built.pulse_width_us > 0
         /\ LET lhs == built.distance_inches * 147
                rhs == built.pulse_width_us * InchDen
                df  == IF lhs > rhs THEN lhs - rhs ELSE rhs - lhs
            IN  df * 100 <= rhs

\* C27: read_serial_measurement returns a distance only when the line read
\* begins with 'R' and ends with the CR the sensor sent, and the number it
\* converts is the whole token the sensor sent between 'R' and CR.
C27_DistanceOnlyFromClosedLine ==
    (rs_pc = "parsed" /\ dist.kind = "inches")
      => /\ Len(rx) >= 2 /\ rx[1] = ByteR /\ rx[Len(rx)] = CR
         /\ LET token == Strip(SubSeq(sent_line, 2, FirstCR(sent_line) - 1))
            IN  IntOk(token) /\ dist.val = IntOf(token) * 10

\* -------------------------------------------------------------- save_to_csv
\* The pulse numbers of ok in rising order: the order in which
\* capture_pulse_series stores the readings that succeeded.
OkPulses(ok) == SelectSeq([i \in 1..Pulses |-> i], LAMBDA i : i \in ok)

\* deque.append of every element of l.
RECURSIVE AppendAll(_, _)
AppendAll(d, l) ==
    IF l = <<>> THEN d ELSE AppendAll(DequeAppend(d, Head(l)), Tail(l))

\* One single_cycle by a caller with no capture loop beside it; of the
\* Pulses reads of each sensor those in ok[s] succeed.  tags keeps, next to
\* every stored measurement, the number of the cycle that captured it.
CsvCycle ==
    /\ ~saved
    /\ cycle_count < MaxCycles
    /\ cycle_count' = cycle_count + 1
    /\ \E ok \in [Sensors -> SUBSET (1..Pulses)] :
         LET c == cycle_count + 1
             stored(sn) ==
               [k \in 1..Len(OkPulses(ok[sn])) |->
                  PulseWidthMeasurement(
                    sn, OkPulses(ok[sn])[k],
                    ((c - 1) * 2 + (sn - 1)) * Pulses + OkPulses(ok[sn])[k])]
         IN  /\ measurements' =
                   [sn \in Sensors |-> AppendAll(measurements[sn], stored(sn))]
             /\ tags' =
                   [sn \in Sensors |->
                      AppendAll(tags[sn],
                                [k \in 1..Len(stored(sn)) |-> c])]
    /\ UNCHANGED <<capv, serv, mainv, parsev, recv, progv, ctl, ghost, pin, pc, sen,
                   idx, reg, ev, rows, saved>>

\* The rows save_to_csv writes for the lists of get_all_measurements, sensor
\* 1's first: one counter runs through both lists and is incremented at
\* every measurement whose pulse_number is 1.
CsvRows(all) ==
    [i \in 1..Len(all) |->
       [sensor       |-> all[i].sensor_name,
        cycle        |-> Cardinality({j \in 1..i : all[j].pulse_number = 1}),
        pulse_number |-> all[i].pulse_number,
        timestamp    |-> all[i].timestamp]]

SaveToCsv ==
    /\ ~saved
    /\ rows' = CsvRows(measurements[1] \o measurements[2])
    /\ saved' = TRUE
    /\ UNCHANGED <<base, capv, serv, mainv, parsev, recv, progv, tags>>

CsvNext ==
    \/ CsvCycle
    \/ SaveToCsv

CsvSpec == Init /\ [][CsvNext]_vars

\* C28: save_to_csv writes one row per stored measurement, sensor 1's
\* before sensor 2's, and the Cycle value of a row is the number of the
\* cycle that captured its measurement.
C28_RowCycleIsCaptureCycle ==
    saved
      => LET all == measurements[1] \o measurements[2]
             cyc == tags[1] \o tags[2]
         IN  /\ Len(rows) = Len(all)
             /\ \A i \in 1..Len(rows) :
                  /\ rows[i].sensor = all[i].sensor_name
                  /\ rows[i].timestamp = all[i].timestamp
                  /\ rows[i].cycle = cyc[i]

\* C31: capture_pulse_series invokes the callback only for a successful
\* reading, once, when a callback is registered: the call is made after
\* the measurement was appended to the history and while the calling agent
\* does not hold the history lock, so that the callback can take the lock
\* itself; a failed reading invokes no callback.
C31_CallbackAfterRelease ==
    /\ [][\A a \in CapAgents :
            /\ cbs'[a] > cbs[a]
                 => /\ cbs'[a] = cbs[a] + 1
                    /\ pc[a] = "cap_cb" /\ callback
                    /\ lock # a
                    /\ \E i \in 1..Len(measurements[1]) :
                         measurements[1][i] = local[a][Len(local[a])]
            /\ (pc[a] = "cap_cb" /\ pc'[a] # "cap_cb" /\ callback)
                 => cbs'[a] = cbs[a] + 1
            /\ (pc[a] = "cap_read" /\ pc'[a] = "cap_next")
                 => cbs'[a] = cbs[a]]_vars
    /\ [](\A a \in CapAgents : cbs[a] <= Len(OkFrom(outs[a], 1)))

C31_Witness ==
    \E a \in CapAgents :
        /\ callback
        /\ pc[a] = "cap_next"
        /\ outs[a] = <<"F", "ok">>
        /\ cbs[a] = 1
        /\ lock = Free

\* ------------------------------------------------- the three line readers
\* One received line, closed by CR, handed to each reader's parser.
LetterN == 110       \* ord('n')
LetterA == 97        \* ord('a')
LineAlphabet == {ByteR, 49, LetterN, LetterA, Space, NonAscii}

\* The lines the sensor side may deliver: up to MaxBytes bytes and the CR.
ClosedLines ==
    {Append(l, CR) : l \in UNION {[1..n -> LineAlphabet] : n \in 0..MaxBytes}}

Readers == {"capture", "uart", "continuous"}

Centimetres(c) == [kind |-> "cm", val |-> c]
NotANumber     == [kind |-> "nan", val |-> 0]

\* ultrasonic_uart.MB1300Sensor.read_distance, lines 83-106:
\* decode('ascii', errors='ignore') drops the bytes above 127, strip()
\* the whitespace at both ends; int() raises ValueError, which is caught,
\* for anything but a number.
UartParse(l) ==
    IF l = <<>> THEN NoDistance
    ELSE LET line_str == Strip(SelectSeq(l, LAMBDA c : c <= 127)) IN
           IF Len(line_str) > 1 /\ line_str[1] = ByteR
             THEN IF IntOk(Strip(Tail(line_str)))
                    THEN Centimetres(IntOf(Strip(Tail(line_str))))
                    ELSE NoDistance
             ELSE NoDistance

\* continuous_mode.SoftwareSerial.read_line for a line that arrives whole:
\* the printable characters before the CR, None for none.
PrintableBefore(l) ==
    SelectSeq(SubSeq(l, 1, FirstCR(l) - 1),
              LAMBDA c : FirstPrintable <= c /\ c <= LastPrintable)

\* float(s) for the strings of the alphabet: digits, or "nan"; anything
\* else raises ValueError.
IsNan(l) == l = <<LetterN, LetterA, LetterN>>

\* continuous_mode.MB1300Continuous.read_distance, lines 71-79; a distance
\* is kept in 1/InchDen inch, cm / 2.54 being cm * 100 of them.
ContParse(l) ==
    LET text == PrintableBefore(l) IN
      IF text # <<>> /\ text[1] = ByteR /\ Len(text) > 1
        THEN LET num == Strip(Tail(text)) IN
               IF AllDigits(num) THEN Distance(Decimal(num) * 100)
               ELSE IF IsNan(num) THEN NotANumber
               ELSE NoDistance                 \* except: return None
        ELSE NoDistance

ReaderParse(k, l) ==
    CASE k = "capture"    -> ParseLine(l)
      [] k = "uart"       -> UartParse(l)
      [] k = "continuous" -> ContParse(l)

\* One read of a reader on a line that arrived whole.  The two hardware
\* UART readers need their port open; the software reader has no port.
LineRead(k) ==
    /\ rs_pc = "ready"
    /\ k = "continuous" \/ port_open[1]
    /\ \E l \in ClosedLines :
         /\ sent_line' = l
         /\ rx' = l
         /\ dist' = ReaderParse(k, l)
    /\ rs_pc' = k
    /\ UNCHANGED <<base, capv, serv, mainv, built, csvv, recv, progv>>

\* The read has returned to its caller; the next read follows.
LineReturn ==
    /\ rs_pc \in Readers \cup {"parsed"}
    /\ rs_pc' = "ready"
    /\ rx' = <<>>
    /\ sent_line' = <<>>
    /\ dist' = NoDistance
    /\ UNCHANGED <<base, capv, serv, mainv, built, csvv, recv, progv>>

LineNext ==
    \/ SetupSerial
    \/ ReadClosed
    \/ \E k \in Readers : LineRead(k)
    \/ LineReturn

LineSpec == Init /\ [][LineNext]_vars

\* The line l, CR excluded, is not 'R' followed by a number: it does not
\* begin with 'R', or what follows 'R' is empty or, blanks at its ends
\* aside, holds anything but decimal digits.
Malformed(l) ==
    LET c == SubSeq(l, 1, Len(l) - 1) IN
      \/ c = <<>>
      \/ c[1] # ByteR
      \/ ~AllDigits(Strip(Tail(c)))

\* C32: a reader that was handed a malformed line returns no reading.
C32_MalformedGivesNoReading ==
    (rs_pc \in Readers /\ Malformed(rx)) => dist.kind = "none"

\* ------------------------------------------------- continuous_mode.main
\* The lines read_line may hand to read_distance: "R0", "R000", "R1",
\* "R11", "Rnan", a line without 'R', and nothing before the timeout.
ContLines ==
    { <<ByteR, 48, CR>>, <<ByteR, 48, 48, 48, CR>>, <<ByteR, 49, CR>>,
      <<ByteR, 49, 49, CR>>, <<ByteR, LetterN, LetterA, LetterN, CR>>,
      <<49, CR>>, <<CR>> }

DistOf(k) == IF k = 1 THEN dist1 ELSE dist2

\* "if dist1:" : None and 0.0 are false, every other float is true.
Truthy(d) == d.kind = "nan" \/ (d.kind = "inches" /\ d.val # 0)

\* Measurement(sensor, distance_inches, time.time())
Measurement(k, d, ts) ==
    [sensor |-> k, distance_inches |-> d, timestamp |-> ts]

ContReadPc(k) == IF k = 1 THEN "read1" ELSE "read2"
ContTestPc(k) == IF k = 1 THEN "test1" ELSE "test2"

\* dist1 = sensor1.read_distance(), dist2 = sensor2.read_distance()
ContRead(k) ==
    /\ cont_pc = ContReadPc(k)
    /\ \E l \in ContLines :
         /\ dist1' = IF k = 1 THEN ContParse(l) ELSE dist1
         /\ dist2' = IF k = 2 THEN ContParse(l) ELSE dist2
    /\ cont_pc' = ContTestPc(k)
    /\ UNCHANGED <<base, capv, serv, mainv, parsev, csvv, recv, uartv, cont_iter,
                   all_measurements, cont_count>>

\* "if dist1:" and its body, lines 115-120, and 124-129 for sensor 2.
ContKeep(k) ==
    /\ cont_pc = ContTestPc(k)
    /\ IF Truthy(DistOf(k))
         THEN LET m == Measurement(k, DistOf(k), 2 * cont_iter + k - 2) IN
                /\ measurements' = [measurements EXCEPT
                                      ![k] = DequeAppend(@, m)]
                /\ all_measurements' = Append(all_measurements, m)
                /\ cont_count' = cont_count + 1
         ELSE UNCHANGED <<measurements, all_measurements, cont_count>>
    /\ cont_pc' = IF k = 1 THEN "read2" ELSE "sleep"
    /\ UNCHANGED <<capv, serv, mainv, parsev, csvv, recv, uartv, ctl, ghost,
                   cycle_count, pin, pc, sen, idx, reg, ev, cont_iter, dist1,
                   dist2>>

\* The count report, time.sleep(0.01) and the next iteration.
ContSleep ==
    /\ cont_pc = "sleep"
    /\ cont_iter < MaxIter
    /\ cont_iter' = cont_iter + 1
    /\ cont_pc' = "read1"
    /\ UNCHANGED <<base, capv, serv, mainv, parsev, csvv, recv, uartv, dist1, dist2,
                   all_measurements, cont_count>>

\* KeyboardInterrupt anywhere in the loop.
ContInterrupt ==
    /\ cont_pc \in {"read1", "test1", "read2", "test2", "sleep"}
    /\ cont_pc' = "finally"
    /\ UNCHANGED <<base, capv, serv, mainv, parsev, csvv, recv, uartv, cont_iter,
                   dist1, dist2, all_measurements, cont_count>>

\* finally: all_measurements is written, the statistics are printed and
\* GPIO.cleanup() is called.
ContFinally ==
    /\ cont_pc = "finally"
    /\ cont_pc' = "done"
    /\ gpio_clean' = TRUE
    /\ UNCHANGED <<capv, serv, mainv, parsev, csvv, recv, uartv, is_running,
                   cycle_count, capture_thread, measurements, pin, pc, sen,
                   idx, reg, ev, ghost, stop_returned, cont_iter, dist1,
                   dist2, all_measurements, cont_count>>

ContNext ==
    \/ \E k \in Sensors : ContRead(k) \/ ContKeep(k)
    \/ ContSleep
    \/ ContInterrupt
    \/ ContFinally

ContSpec == Init /\ [][ContNext]_vars

\* C33: when main goes on from the test of a distance that read_distance
\* decoded (anything but None, the distance 0 included), the measurement
\* is the new last entry of the sensor's history and of all_measurements,
\* and count is one higher.
C33_DecodedIsKept ==
    [][\A k \in Sensors :
         (cont_pc = ContTestPc(k) /\ cont_pc' \in {"read2", "sleep"}
            /\ DistOf(k).kind # "none")
           => /\ Len(all_measurements') = Len(all_measurements) + 1
              /\ all_measurements'[Len(all_measurements')].distance_inches
                   = DistOf(k)
              /\ Len(measurements'[k]) = Len(measurements[k]) + 1
              /\ cont_count' = cont_count + 1]_vars

\* ------------------------------------ ultrasonic_uart: main and its calls
\* what no statement of ultrasonic_uart touches
uart_frame == <<base, capv, serv, mainv, parsev, csvv, recv, contv>>

OpenPc(k) == IF k = 1 THEN "open1" ELSE "open2"
ReadPc(k) == IF k = 1 THEN "s1" ELSE "s2"

\* SensorReading(sensor_id, timestamp, distance_cm, reading_number)
SensorReading(k, ts, cm, n) ==
    [sensor_id |-> k, timestamp |-> ts, distance_cm |-> cm,
     reading_number |-> n]

\* The lines a read_distance call may get from read_until: "R1\r", a line
\* without 'R', and nothing before the timeout.
UartLines == { <<ByteR, 49, CR>>, <<49, CR>>, <<>> }

\* setup(): self.sensor1.open(), self.sensor2.open().  serial.Serial()
\* raises and no port is there; or the port is open and
\* reset_input_buffer() raises; open() returns False for both.
UartOpen(k) ==
    /\ uart_pc = OpenPc(k)
    /\ \/ /\ serial_open' = [serial_open EXCEPT ![k] = TRUE]
          /\ success' = [success EXCEPT ![k] = TRUE]
       \/ /\ serial_open' = [serial_open EXCEPT ![k] = FALSE]
          /\ success' = [success EXCEPT ![k] = FALSE]
       \/ /\ serial_open' = [serial_open EXCEPT ![k] = TRUE]
          /\ success' = [success EXCEPT ![k] = FALSE]
    /\ uart_pc' = IF k = 1 THEN "open2" ELSE "setup_test"
    /\ UNCHANGED <<uart_frame, setup_ret, cycle, ua_i, all_readings, attempts>>

\* setup(), lines 132-146: with a failed open, cleanup() closes what is
\* open and setup returns False, on which main returns 1 through its
\* finally; otherwise setup returns True and main calls
\* capture_alternating.
UartSetupTest_NoCleanup ==
    /\ uart_pc = "setup_test"
    /\ IF success[1] = FALSE \/ success[2] = FALSE
         THEN /\ setup_ret' = "False"
              /\ uart_pc' = "finally"
         ELSE /\ setup_ret' = "True"
              /\ uart_pc' = "cycle"
    /\ UNCHANGED <<uart_frame, success, serial_open, cycle, ua_i, all_readings,
                   attempts>>

UartSetupTest ==
    /\ uart_pc = "setup_test"
    /\ IF success[1] = FALSE \/ success[2] = FALSE
         THEN /\ serial_open' = [s \in Sensors |-> FALSE]
              /\ setup_ret' = "False"
              /\ uart_pc' = "finally"
         ELSE /\ setup_ret' = "True"
              /\ uart_pc' = "cycle"
              /\ UNCHANGED serial_open
    /\ UNCHANGED <<uart_frame, success, cycle, ua_i, all_readings, attempts>>

\* capture_alternating: "while True: cycle += 1" and the start of the for
\* loop over sensor 1.
UartCycle ==
    /\ uart_pc = "cycle"
    /\ cycle < MaxCycles
    /\ cycle' = cycle + 1
    /\ attempts' = <<>>
    /\ ua_i' = 1
    /\ uart_pc' = "s1"
    /\ UNCHANGED <<uart_frame, success, setup_ret, serial_open, all_readings>>

\* What follows attempt ua_i on sensor k: the next attempt, the loop over
\* sensor 2, or _save_readings.
AfterAttempt(k) ==
    IF ua_i < Pulses
      THEN /\ ua_i' = ua_i + 1
           /\ uart_pc' = ReadPc(k)
      ELSE /\ ua_i' = IF k = 1 THEN 1 ELSE 0
           /\ uart_pc' = IF k = 1 THEN "s2" ELSE "save"

\* One pass of a for loop, lines 176-182 and 187-193:
\* reading = sensor.read_distance(i + 1), kept when it is a reading, and
\* time.sleep(0.1).
UartAttempt_FailEndsCycle(k) ==
    /\ uart_pc = ReadPc(k)
    /\ attempts' = Append(attempts, <<k, ua_i>>)
    /\ \E l \in UartLines :
         LET reading == IF serial_open[k] THEN UartParse(l) ELSE NoDistance
             ts == ((cycle - 1) * 2 + (k - 1)) * Pulses + ua_i
         IN  IF reading.kind = "cm"
               THEN /\ all_readings' =
                         Append(all_readings,
                                SensorReading(k, ts, reading.val, ua_i))
                    /\ AfterAttempt(k)
               ELSE /\ ua_i' = 0
                    /\ uart_pc' = "save"
                    /\ UNCHANGED all_readings
    /\ UNCHANGED <<uart_frame, success, setup_ret, serial_open, cycle>>

UartAttempt(k) ==
    /\ uart_pc = ReadPc(k)
    /\ attempts' = Append(attempts, <<k, ua_i>>)
    /\ \E l \in UartLines :
         LET reading == IF serial_open[k] THEN UartParse(l) ELSE NoDistance
             ts == ((cycle - 1) * 2 + (k - 1)) * Pulses + ua_i
         IN  all_readings' =
               IF reading.kind = "cm"
                 THEN Append(all_readings,
                             SensorReading(k, ts, reading.val, ua_i))
                 ELSE all_readings
    /\ AfterAttempt(k)
    /\ UNCHANGED <<uart_frame, success, setup_ret, serial_open, cycle>>

\* self._save_readings(all_readings): the file is written and the next
\* cycle follows, or writing raises and the exception leaves
\* capture_alternating for main's handler.
UartSave ==
    /\ uart_pc = "save"
    /\ uart_pc' \in {"cycle", "finally"}
    /\ UNCHANGED <<uart_frame, success, setup_ret, serial_open, cycle, ua_i,
                   all_readings, attempts>>

\* KeyboardInterrupt: caught by capture_alternating, which saves and
\* returns, or by main; main's finally is next.
UartInterrupt ==
    /\ uart_pc \in {"open1", "open2", "setup_test", "cycle", "s1", "s2",
                    "save"}
    /\ uart_pc' = "finally"
    /\ UNCHANGED <<uart_frame, success, setup_ret, serial_open, cycle, ua_i,
                   all_readings, attempts>>

\* finally: controller.cleanup() closes the ports that are open.
UartFinally ==
    /\ uart_pc = "finally"
    /\ serial_open' = [s \in Sensors |-> FALSE]
    /\ uart_pc' = "exited"
    /\ UNCHANGED <<uart_frame, success, setup_ret, cycle, ua_i, all_readings,
                   attempts>>

UartNext ==
    \/ \E k \in Sensors : UartOpen(k) \/ UartAttempt(k)
    \/ UartSetupTest
    \/ UartCycle
    \/ UartSave
    \/ UartInterrupt
    \/ UartFinally

UartSpec == Init /\ [][UartNext]_vars

\* C34: once setup() has returned False no serial port is open and no
\* read attempt is ever made; setup() returns True, and reads are
\* attempted, only when both ports were opened.
C34_FailedSetupReadsNothing ==
    /\ setup_ret = "False"
         => /\ \A k \in Sensors : ~serial_open[k]
            /\ cycle = 0 /\ attempts = <<>> /\ all_readings = <<>>
    /\ setup_ret = "True" => \A k \in Sensors : success[k] = TRUE
    /\ (cycle > 0 \/ attempts # <<>>) => setup_ret = "True"

C34_Witness ==
    /\ uart_pc = "exited"
    /\ setup_ret = "False"
    /\ success[1] = TRUE /\ success[2] = FALSE

\* The read attempts of one full cycle, in order.
FullAttempts ==
    [n \in 1..(2 * Pulses) |->
       IF n <= Pulses THEN <<1, n>> ELSE <<2, n - Pulses>>]

\* C35: the read attempts of a cycle are made in the order sensor 1,
\* attempts 1..Pulses, then sensor 2, attempts 1..Pulses; the cycle reaches
\* its end only after all of them, whatever attempts failed; and a reading
\* that is kept carries the number of its attempt.
C35_SensorOneFirst ==
    /\ [](/\ IsPrefix(attempts, FullAttempts)
          /\ uart_pc = "save" => attempts = FullAttempts)
    /\ [][Len(all_readings') > Len(all_readings)
            => LET r == all_readings'[Len(all_readings')] IN
                 /\ all_readings' = Append(all_readings, r)
                 /\ attempts' = Append(attempts, <<r.sensor_id,
                                                  r.reading_number>>)
                 /\ r.reading_number = ua_i]_vars

C35_Witness ==
    /\ uart_pc = "save"
    /\ cycle = 1
    /\ attempts = FullAttempts
    /\ Len(all_readings) = 1
    /\ all_readings[1].sensor_id = 2
    /\ all_readings[1].reading_number = Pulses

====
